---- MODULE Spec2Model ----
(***************************************************************************)
(* Model of MessageForwarder (src/src/MessageForwarder.cpp): the           *)
(* keep-alive connection pool, the upstream dialer and the GET / POST /    *)
(* CONNECT handlers that share them.                                       *)
(*                                                                         *)
(* Sockets are file descriptors, as in the code: small integers.  close()  *)
(* frees the number and socket() hands out the lowest free one, so a       *)
(* number that is kept after its close can come to name another            *)
(* connection.                                                             *)
(***************************************************************************)
EXTENDS Integers, Sequences, FiniteSets, TLC

\* ------------------------------------------------------------------ bounds
NumWorkers == 2
MaxFd == 2
\* the size of the handlers' receive buffer, in symbols of the response model
BUFFER_SIZE == 32
\* how many bytes each side of a tunnel sends
MaxMsg == 2

Workers == 1..NumWorkers
Fds == 1..MaxFd

Host == "example.com"
Ports == {"", "80"}
Methods == {"GET", "POST", "CONNECT"}

VARIABLES
    keepAliveConnections, \* std::map "host:port" -> socket (guarded by keepAliveMutex)
    fdState,              \* per descriptor: "free" (closed), "live", "eof" (peer closed), "reset"
    pc,                   \* per worker: position in its handler
    method,               \* per worker: req.method of the request being handled
    port,                 \* per worker: the port the handler dials and pools under
    serverSocket,         \* per worker: the handler's local serverSocket (0: none yet)
    existingSocket,       \* per worker: connectToServer's local existingSocket (0: none)
    framing,              \* per worker: "bad" when the POST's request framing is malformed
    lastExit,             \* history: the handler return the last step made, and what
                          \* that handler had written and closed
    lastPut,              \* history: the put the last step made (key, socket, old entry)
    lastGet,              \* history (SpecSeq): the GET that returned last
    \* the response loop of one GET / POST handler (SpecRelay)
    response,             \* what the origin server sends: its header fields and body
    upEnd,                \* what the origin does after the last byte: "close", "idle", "error"
    received,             \* how many symbols of the response recv has delivered
    reads,                \* how many recv calls returned data
    loop,                 \* the handler's locals: responseHeaders, headersComplete, ...
    clientBytes,          \* what the handler has sent to the client
    clientFailed,         \* a send to the client has failed
    req,                  \* the request handed to buildForwardRequest (SpecBuild)
    requestToSend,        \* its result, as the lines written to the stream
    tunnel                \* the tunnel loop of one CONNECT handler (SpecTunnel)

poolVars == <<keepAliveConnections, fdState, pc, method, port, framing,
              serverSocket, existingSocket, lastPut, lastExit>>
relayVars == <<response, upEnd, received, reads, loop, clientBytes, clientFailed>>
buildVars == <<req, requestToSend>>
vars == <<poolVars, lastGet, relayVars, buildVars, tunnel>>

\* ------------------------------------------------------------- the pool
\* std::string key = host + ":" + port
Key(host, p) == <<host, p>>

\* forwardGet and forwardConnect dial and pool under req.port as it is,
\* forwardPost under  req.port.empty() ? "80" : req.port
DialPort(m, p) == IF m = "POST" /\ p = "" THEN "80" ELSE p

\* the map lookup: it->second, or -1 at end(); the entry stays in the map
getKeepAliveConnection(map, key) ==
    IF key \in DOMAIN map THEN map[key] ELSE -1

\* a saveKeepAliveConnection that leaves the displaced socket open
SaveClosesNothing(map, key, socket) == {}

\* the sockets saveKeepAliveConnection closes: the old entry of the key, if any
SaveCloses(map, key, socket) ==
    IF key \in DOMAIN map THEN {map[key]} ELSE {}

\* keepAliveConnections[key] = socket
SaveStores(map, key, socket) ==
    [k \in DOMAIN map \cup {key} |-> IF k = key THEN socket ELSE map[k]]

\* keepAliveConnections.erase(key)
removeKeepAliveConnection(map, key) ==
    [k \in DOMAIN map \ {key} |-> map[k]]

\* close(fd) on the descriptor table: EBADF (no change) when fd is not open
Close(st, S) == [f \in Fds |-> IF f \in S THEN "free" ELSE st[f]]

\* recv(fd, &test, 1, MSG_PEEK | MSG_DONTWAIT):
\*   0 on an orderly close by the peer, -1 (EAGAIN) on an idle live socket,
\*   -1 (ECONNRESET) after a reset, -1 (EBADF) on a closed descriptor
Peek(st, fd) ==
    IF fd \notin Fds THEN -1
    ELSE IF st[fd] = "eof" THEN 0 ELSE -1

\* send() can succeed, and recv() can deliver data or EOF, only on an open
\* connection that was not reset
CanSend(st, fd) == fd \in Fds /\ st[fd] \in {"live", "eof"}
CanRecv(st, fd) == fd \in Fds /\ st[fd] \in {"live", "eof"}

FreeFds == {f \in Fds : fdState[f] = "free"}
\* socket() returns the lowest descriptor that is not open
LowestFree == CHOOSE f \in FreeFds : \A g \in FreeFds : f <= g

Pooled == {keepAliveConnections[k] : k \in DOMAIN keepAliveConnections}

NoPut == [key |-> <<>>, sock |-> 0, old |-> 0]
NoGet == [key |-> <<>>, sock |-> 0, ka |-> FALSE]
NoExit == [worker |-> 0, method |-> "", framing |-> "", path |-> "", sock |-> 0,
           toClient |-> <<>>, toServer |-> <<>>, closed |-> {}]

\* ------------------------------------------------------------------ Init
PoolInit ==
    /\ keepAliveConnections = <<>>
    /\ fdState = [f \in Fds |-> "free"]
    /\ pc = [w \in Workers |-> "idle"]
    /\ method = [w \in Workers |-> "GET"]
    /\ port = [w \in Workers |-> "80"]
    /\ framing = [w \in Workers |-> "ok"]
    /\ serverSocket = [w \in Workers |-> 0]
    /\ existingSocket = [w \in Workers |-> 0]
    /\ lastPut = NoPut
    /\ lastExit = NoExit
    /\ lastGet = NoGet

\* the locals of the response loop as the handler declares them
LoopStart == [at |-> "recv", bytesRead |-> 1, responseHeaders |-> <<>>,
              headersComplete |-> FALSE, contentLength |-> 0,
              receivedBodyBytes |-> 0, chunkedEncoding |-> FALSE,
              keepAliveServer |-> FALSE]

NoResponse == [cl |-> <<>>, ka |-> FALSE, te |-> FALSE, body |-> <<>>]

RelayIdle ==
    /\ response = NoResponse
    /\ upEnd = "close"
    /\ received = 0
    /\ reads = 0
    /\ loop = LoopStart
    /\ clientBytes = <<>>
    /\ clientFailed = FALSE

\* no request is being built, no tunnel runs
NoRequest == [method |-> "", headers |-> <<>>, body |-> ""]
NoTunnel == [at |-> "none"]
BuildIdle == req = NoRequest /\ requestToSend = <<>>

Init == PoolInit /\ RelayIdle /\ BuildIdle /\ tunnel = NoTunnel

KeyOf(w) == Key(Host, port[w])

\* the handler returns: its locals go out of scope
Return(w) ==
    /\ pc' = [pc EXCEPT ![w] = "idle"]
    /\ method' = [method EXCEPT ![w] = "GET"]
    /\ port' = [port EXCEPT ![w] = "80"]
    /\ framing' = [framing EXCEPT ![w] = "ok"]
    /\ serverSocket' = [serverSocket EXCEPT ![w] = 0]
    /\ existingSocket' = [existingSocket EXCEPT ![w] = 0]

Goto(w, l) == pc' = [pc EXCEPT ![w] = l]

\* sendErrorResponse(clientSocket, statusCode, statusText): what it sends
sendErrorResponse(statusCode, statusText) == <<statusCode, statusText>>

\* what the handlers write besides error responses
ConnectionEstablished == <<200, "Connection Established">>
ForwardedRequest == "request"
RelayedResponse == "response"
TunnelledBytes == "tunnel"

\* the handler of worker w leaves by the exit path named path, having
\* written toClient to the client socket and toServer to serverSocket, and
\* having closed the sockets named in closed
Exit(w, path, toClient, toServer, closed) ==
    lastExit' = [worker |-> w, method |-> method[w], framing |-> framing[w],
                 path |-> path, sock |-> serverSocket[w],
                 toClient |-> toClient, toServer |-> toServer, closed |-> closed]

\* ------------------------------------------------------------ the handlers
\* the acceptor hands a parsed request to forwardGet / forwardPost /
\* forwardConnect, which calls connectToServer(req.host, port)
Start(w) ==
    /\ pc[w] = "idle"
    /\ \E m \in Methods, p \in Ports, f \in {"ok", "bad"} :
          /\ (m = "CONNECT" => p # "")
          /\ (f = "bad" => m = "POST")
          /\ method' = [method EXCEPT ![w] = m]
          /\ port' = [port EXCEPT ![w] = DialPort(m, p)]
          /\ framing' = [framing EXCEPT ![w] = f]
    /\ Goto(w, "get")
    /\ lastPut' = NoPut
    /\ lastExit' = NoExit
    /\ UNCHANGED <<keepAliveConnections, fdState, serverSocket, existingSocket>>

\* connectToServer: int existingSocket = getKeepAliveConnection(host, port);
\* if (existingSocket > 0) the peek follows, else the fresh connection
DialGet(w) ==
    /\ pc[w] = "get"
    /\ LET s == getKeepAliveConnection(keepAliveConnections, KeyOf(w)) IN
          IF s > 0
          THEN /\ existingSocket' = [existingSocket EXCEPT ![w] = s]
               /\ Goto(w, "peek")
          ELSE /\ UNCHANGED existingSocket
               /\ Goto(w, "connect")
    /\ lastPut' = NoPut
    /\ lastExit' = NoExit
    /\ UNCHANGED <<keepAliveConnections, fdState, method, port, framing,
                   serverSocket>>

\* connectToServer: the liveness peek; 0: close(existingSocket), else return it
DialPeek(w) ==
    /\ pc[w] = "peek"
    /\ IF Peek(fdState, existingSocket[w]) = 0
       THEN /\ fdState' = Close(fdState, {existingSocket[w]})
            /\ Goto(w, "remove")
            /\ UNCHANGED serverSocket
       ELSE /\ serverSocket' = [serverSocket EXCEPT ![w] = existingSocket[w]]
            /\ Goto(w, "dialed")
            /\ UNCHANGED fdState
    /\ existingSocket' = [existingSocket EXCEPT ![w] = 0]
    /\ lastPut' = NoPut
    /\ lastExit' = NoExit
    /\ UNCHANGED <<keepAliveConnections, method, port, framing>>

\* connectToServer: removeKeepAliveConnection(host, port) after the close
DialRemove(w) ==
    /\ pc[w] = "remove"
    /\ keepAliveConnections' = removeKeepAliveConnection(keepAliveConnections, KeyOf(w))
    /\ Goto(w, "connect")
    /\ lastPut' = NoPut
    /\ lastExit' = NoExit
    /\ UNCHANGED <<fdState, method, port, framing, serverSocket, existingSocket>>

\* connectToServer: getaddrinfo, socket, connect all succeed: return sockfd
DialConnect(w) ==
    /\ pc[w] = "connect"
    /\ FreeFds # {}
    /\ fdState' = [fdState EXCEPT ![LowestFree] = "live"]
    /\ serverSocket' = [serverSocket EXCEPT ![w] = LowestFree]
    /\ Goto(w, "dialed")
    /\ lastPut' = NoPut
    /\ lastExit' = NoExit
    /\ UNCHANGED <<keepAliveConnections, method, port, framing, existingSocket>>

\* a handler that answers a failed dial with another error response
DialFailSendsOther(m) == sendErrorResponse(500, "Internal Server Error")

\* what a handler sends to the client when connectToServer returned -1
DialFailSends(m) == sendErrorResponse(502, "Bad Gateway")

\* connectToServer returns -1 (resolver, socket() or connect failed; a socket
\* that was created is closed again): the handler sends 502 and returns
DialFail(w) ==
    /\ pc[w] = "connect"
    /\ Return(w)
    /\ Exit(w, "dialfail", <<DialFailSends(method[w])>>, <<>>, {})
    /\ lastPut' = NoPut
    /\ UNCHANGED <<keepAliveConnections, fdState>>

\* an exit path that returns and leaves serverSocket open
ReturnWithoutClose(w, path, toClient, toServer) ==
    /\ Return(w)
    /\ Exit(w, path, toClient, toServer, {})
    /\ lastPut' = NoPut
    /\ UNCHANGED <<keepAliveConnections, fdState>>

\* an exit path "close(serverSocket); ...; return;"
CloseAndReturn(w, path, toClient, toServer) ==
    /\ fdState' = Close(fdState, {serverSocket[w]})
    /\ Return(w)
    /\ Exit(w, path, toClient, toServer, {"serverSocket"})
    /\ lastPut' = NoPut
    /\ UNCHANGED keepAliveConnections

\* forwardPost: Content-Length does not parse, or a body without framing:
\* close(serverSocket), 400, return
PostBadRequest(w) ==
    /\ pc[w] = "dialed" /\ method[w] = "POST"
    /\ framing[w] = "bad"
    /\ CloseAndReturn(w, "badrequest", <<sendErrorResponse(400, "Bad Request")>>, <<>>)

\* forwardGet / forwardPost: send(serverSocket, request) < 0:
\* close(serverSocket), 500, return
SendFail(w) ==
    /\ pc[w] = "dialed" /\ method[w] \in {"GET", "POST"}
    /\ framing[w] = "ok"
    /\ CloseAndReturn(w, "sendfail",
                      <<sendErrorResponse(500, "Internal Server Error")>>, <<>>)

\* forwardGet / forwardPost: the request is written upstream.  A POST whose
\* chunked body is incomplete goes on reading chunks from the client.
SendRequest(w) ==
    /\ pc[w] = "dialed" /\ method[w] \in {"GET", "POST"}
    /\ framing[w] = "ok"
    /\ CanSend(fdState, serverSocket[w])
    /\ \E more \in BOOLEAN :
          /\ (more => method[w] = "POST")
          /\ Goto(w, IF more THEN "chunks" ELSE "relay")
    /\ lastPut' = NoPut
    /\ lastExit' = NoExit
    /\ UNCHANGED <<keepAliveConnections, fdState, method, port, framing, serverSocket,
                   existingSocket>>

\* forwardPost: the client closes or a chunk cannot be forwarded:
\* close(serverSocket), return
PostChunkAbort(w) ==
    /\ pc[w] = "chunks"
    /\ CloseAndReturn(w, "chunkabort", <<>>, <<ForwardedRequest>>)

\* forwardPost: the chunk with "0\r\n\r\n" has been forwarded
PostChunksDone(w) ==
    /\ pc[w] = "chunks"
    /\ CanSend(fdState, serverSocket[w])
    /\ Goto(w, "relay")
    /\ lastPut' = NoPut
    /\ lastExit' = NoExit
    /\ UNCHANGED <<keepAliveConnections, fdState, method, port, framing, serverSocket,
                   existingSocket>>

LoopEndsAll == [hc : BOOLEAN, ka : BOOLEAN, end : {"done", "eof", "readerr", "sendfail"}]

\* how the response loop of forwardGet / forwardPost can end:
\*   hc: the header block was completed, ka: it held "Connection: keep-alive"
\*   (keepAliveServer), end: "done" (a break on the framing), "eof" (recv = 0),
\*   "readerr" (recv < 0) or "sendfail" (send to the client < 0, break)
LoopEnds(canRecv) ==
    {e \in LoopEndsAll :
        /\ (e.ka => e.hc)
        /\ (e.end \in {"done", "sendfail"} => e.hc)
        /\ (~canRecv => (e.end = "readerr" /\ ~e.hc))}

\* what the handler does with serverSocket after the loop:
\*   if (!keepAliveServer) close(serverSocket);
\*   else saveKeepAliveConnection(req.host, port, serverSocket);
PoolsSocket(e) == e.ka

\* forwardGet / forwardPost: the response loop runs to its end e, then the
\* upstream socket is closed or saved, and the handler returns
RelayWith(w, e) ==
    /\ pc[w] = "relay"
    /\ e \in LoopEnds(CanRecv(fdState, serverSocket[w]))
    /\ LET st == IF e.end = "eof"
                 THEN [fdState EXCEPT ![serverSocket[w]] = "eof"]
                 ELSE fdState
       IN  IF ~PoolsSocket(e)
           THEN /\ fdState' = Close(st, {serverSocket[w]})
                /\ lastPut' = NoPut
                /\ UNCHANGED keepAliveConnections
                /\ Exit(w, "relay", IF e.hc THEN <<RelayedResponse>> ELSE <<>>,
                        <<ForwardedRequest>>, {"serverSocket"})
           ELSE /\ fdState' = Close(st,
                       SaveCloses(keepAliveConnections, KeyOf(w), serverSocket[w]))
                /\ keepAliveConnections' =
                       SaveStores(keepAliveConnections, KeyOf(w), serverSocket[w])
                /\ lastPut' = [key |-> KeyOf(w), sock |-> serverSocket[w],
                               old |-> IF KeyOf(w) \in DOMAIN keepAliveConnections
                                       THEN keepAliveConnections[KeyOf(w)] ELSE 0]
                /\ Exit(w, "relay", <<RelayedResponse>>, <<ForwardedRequest>>, {})
    /\ Return(w)

Relay(w) == \E e \in LoopEndsAll : RelayWith(w, e)

\* forwardGet / forwardPost: std::stoul throws on the response's Content-Length:
\* the exception leaves the handler, nothing is closed or saved
RelayThrows(w) ==
    /\ pc[w] = "relay"
    /\ CanRecv(fdState, serverSocket[w])
    /\ Return(w)
    /\ Exit(w, "throw", <<>>, <<ForwardedRequest>>, {})
    /\ lastPut' = NoPut
    /\ UNCHANGED <<keepAliveConnections, fdState>>

\* forwardConnect: the "200 Connection Established" cannot be sent to the
\* client: close(serverSocket), return
ConnectReplyFail(w) ==
    /\ pc[w] = "dialed" /\ method[w] = "CONNECT"
    /\ CloseAndReturn(w, "replyfail", <<>>, <<>>)

\* forwardConnect: the 200 is sent, both sockets non-blocking, the tunnel runs
ConnectEstablished(w) ==
    /\ pc[w] = "dialed" /\ method[w] = "CONNECT"
    /\ Goto(w, "tunnel")
    /\ lastPut' = NoPut
    /\ lastExit' = NoExit
    /\ UNCHANGED <<keepAliveConnections, fdState, method, port, framing, serverSocket,
                   existingSocket>>

\* forwardConnect: the tunnel loop ends: close(serverSocket), return
TunnelEnd(w) ==
    /\ pc[w] = "tunnel"
    /\ CloseAndReturn(w, "tunnelend", <<ConnectionEstablished, TunnelledBytes>>,
                      <<TunnelledBytes>>)

\* ------------------------------------------------------- the origin servers
\* the peer of an open upstream connection closes it (FIN)
PeerClose(f) ==
    /\ fdState[f] = "live"
    /\ fdState' = [fdState EXCEPT ![f] = "eof"]
    /\ lastPut' = NoPut
    /\ lastExit' = NoExit
    /\ UNCHANGED <<keepAliveConnections, pc, method, port, framing, serverSocket,
                   existingSocket>>

\* the peer resets it (RST)
PeerReset(f) ==
    /\ fdState[f] \in {"live", "eof"}
    /\ fdState' = [fdState EXCEPT ![f] = "reset"]
    /\ lastPut' = NoPut
    /\ lastExit' = NoExit
    /\ UNCHANGED <<keepAliveConnections, pc, method, port, framing, serverSocket,
                   existingSocket>>

\* the variables of the other specifications stay as they are
KeepRest == UNCHANGED <<relayVars, buildVars, tunnel>>
KeepSeq == UNCHANGED lastGet /\ KeepRest

\* the workers run their handlers in parallel, the origin servers act on their own
Next ==
    \/ \E w \in Workers : Start(w) /\ KeepSeq
    \/ \E w \in Workers : DialGet(w) /\ KeepSeq
    \/ \E w \in Workers : DialPeek(w) /\ KeepSeq
    \/ \E w \in Workers : DialRemove(w) /\ KeepSeq
    \/ \E w \in Workers : DialConnect(w) /\ KeepSeq
    \/ \E w \in Workers : DialFail(w) /\ KeepSeq
    \/ \E w \in Workers : PostBadRequest(w) /\ KeepSeq
    \/ \E w \in Workers : SendFail(w) /\ KeepSeq
    \/ \E w \in Workers : SendRequest(w) /\ KeepSeq
    \/ \E w \in Workers : PostChunkAbort(w) /\ KeepSeq
    \/ \E w \in Workers : PostChunksDone(w) /\ KeepSeq
    \/ \E w \in Workers : Relay(w) /\ KeepSeq
    \/ \E w \in Workers : RelayThrows(w) /\ KeepSeq
    \/ \E w \in Workers : ConnectReplyFail(w) /\ KeepSeq
    \/ \E w \in Workers : ConnectEstablished(w) /\ KeepSeq
    \/ \E w \in Workers : TunnelEnd(w) /\ KeepSeq
    \/ \E f \in Fds : PeerClose(f) /\ KeepSeq
    \/ \E f \in Fds : PeerReset(f) /\ KeepSeq

Spec == Init /\ [][Next]_vars

\* ------------------------------------------------- a sequence of GETs
\* one worker handles one GET after the other; lastGet records the GET that
\* returned last: its pool key, its upstream socket and whether its response
\* header block held "Connection: keep-alive"
SeqWorker == CHOOSE w \in Workers : \A v \in Workers : w <= v

RecordGet(w, ka) == lastGet' = [key |-> KeyOf(w), sock |-> serverSocket[w], ka |-> ka]

NextSeq ==
    \/ Start(SeqWorker) /\ method'[SeqWorker] = "GET" /\ KeepSeq
    \/ DialGet(SeqWorker) /\ KeepSeq
    \/ DialPeek(SeqWorker) /\ KeepSeq
    \/ DialRemove(SeqWorker) /\ KeepSeq
    \/ DialConnect(SeqWorker) /\ KeepSeq
    \/ DialFail(SeqWorker) /\ lastGet' = NoGet /\ KeepRest
    \/ SendFail(SeqWorker) /\ RecordGet(SeqWorker, FALSE) /\ KeepRest
    \/ SendRequest(SeqWorker) /\ KeepSeq
    \/ \E e \in LoopEndsAll : RelayWith(SeqWorker, e) /\ RecordGet(SeqWorker, e.ka)
                             /\ KeepRest
    \/ RelayThrows(SeqWorker) /\ lastGet' = NoGet /\ KeepRest
    \/ \E f \in Fds : PeerClose(f) /\ KeepSeq
    \/ \E f \in Fds : PeerReset(f) /\ KeepSeq

SpecSeq == Init /\ [][NextSeq]_vars

\* ------------------------------------------------------ the response loop
\* The response is a sequence of symbols: one per byte, except that the
\* status line and each literal the code searches for in the header block is
\* one symbol.  The header block is searched as a whole after each read, so
\* where a read ends inside such a literal makes no difference to the loop.
CR == "\r"
LF == "\n"
CRLF == <<CR, LF>>
StatusLine == "HTTP/1.1 200 OK"
ContentLengthName == "Content-Length: "
KeepAliveHeader == "Connection: keep-alive"
ChunkedHeader == "Transfer-Encoding: chunked"
\* "\r\n\r\n" and "0\r\n\r\n"
HeaderEndMark == CRLF \o CRLF
ChunkEndMark == <<"0">> \o CRLF \o CRLF

MinOf(S) == CHOOSE i \in S : \A j \in S : i <= j
Smaller(a, b) == IF a <= b THEN a ELSE b

\* std::string::find(pat, from), positions counted from 1; 0 is npos
Find(str, pat, from) ==
    LET at == {i \in from..(Len(str) - Len(pat) + 1) :
                  SubSeq(str, i, i + Len(pat) - 1) = pat}
    IN  IF at = {} THEN 0 ELSE MinOf(at)

DigitChars == <<"0", "1", "2", "3", "4", "5", "6", "7", "8", "9">>
IsDigit(c) == \E i \in 1..Len(DigitChars) : DigitChars[i] = c
DigitValue(c) == (CHOOSE i \in 1..Len(DigitChars) : DigitChars[i] = c) - 1

RECURSIVE DigitsValue(_, _)
DigitsValue(str, acc) ==
    IF str = <<>> \/ ~IsDigit(Head(str)) THEN acc
    ELSE DigitsValue(Tail(str), acc * 10 + DigitValue(Head(str)))

\* std::stoul: the value of the leading digits; -1 stands for the
\* std::invalid_argument it throws when there is none
StoUL(str) ==
    IF str = <<>> \/ ~IsDigit(Head(str)) THEN -1 ELSE DigitsValue(str, 0)

\* the loop body for a read while !headersComplete: the result is the new
\* locals, what was sent to the client, and whether that send failed
HeaderRead(l, buffer, sendOk) ==
    LET rh == l.responseHeaders \o buffer
        headerEnd == Find(rh, HeaderEndMark, 1)
    IN  IF headerEnd = 0
        THEN [loop |-> [l EXCEPT !.responseHeaders = rh], sent |-> <<>>, failed |-> FALSE]
        ELSE
        LET headerSection == SubSeq(rh, 1, headerEnd - 1)
            ka == l.keepAliveServer \/ Find(headerSection, <<KeepAliveHeader>>, 1) # 0
            contentLengthPos == Find(headerSection, <<ContentLengthName>>, 1)
            valueStart == contentLengthPos + 1
            valueEnd == Find(headerSection, CRLF, valueStart)
            lengthStr == IF valueEnd = 0
                         THEN SubSeq(headerSection, valueStart, Len(headerSection))
                         ELSE SubSeq(headerSection, valueStart, valueEnd - 1)
            cl == IF contentLengthPos = 0 THEN l.contentLength ELSE StoUL(lengthStr)
            chunked == l.chunkedEncoding
                          \/ Find(headerSection, <<ChunkedHeader>>, 1) # 0
            body == Len(rh) - (headerEnd + 3)
            l1 == [l EXCEPT !.responseHeaders = rh, !.headersComplete = TRUE,
                            !.keepAliveServer = ka]
            l2 == [l1 EXCEPT !.contentLength = cl, !.chunkedEncoding = chunked,
                             !.receivedBodyBytes = body]
        IN  IF cl = -1
            THEN [loop |-> [l1 EXCEPT !.at = "throw"], sent |-> <<>>, failed |-> FALSE]
            ELSE IF ~sendOk
            THEN [loop |-> [l2 EXCEPT !.at = "done"], sent |-> <<>>, failed |-> TRUE]
            ELSE [loop |-> [l2 EXCEPT !.at =
                               IF \/ (cl > 0 /\ body >= cl)
                                  \/ (cl = 0 /\ ~chunked)
                               THEN "done" ELSE "recv"],
                  sent |-> rh, failed |-> FALSE]

\* the loop body for a read once the headers were sent
BodyRead(l, buffer, sendOk) ==
    IF ~sendOk
    THEN [loop |-> [l EXCEPT !.at = "done"], sent |-> <<>>, failed |-> TRUE]
    ELSE LET body == l.receivedBodyBytes + Len(buffer) IN
         [loop |-> [l EXCEPT !.receivedBodyBytes = body,
                             !.at = IF \/ (l.contentLength > 0 /\ body >= l.contentLength)
                                       \/ (l.chunkedEncoding
                                             /\ Find(buffer, ChunkEndMark, 1) # 0)
                                    THEN "done" ELSE "recv"],
          sent |-> buffer, failed |-> FALSE]

ProcessRead(l, buffer, sendOk) ==
    IF ~l.headersComplete THEN HeaderRead(l, buffer, sendOk)
    ELSE BodyRead(l, buffer, sendOk)

\* the responses of the origin server: a status line, optionally
\* Content-Length (cl: its value, <<>> for no such header), Connection:
\* keep-alive (ka) and Transfer-Encoding: chunked (te), and a body
ChunkedHi == <<"2">> \o CRLF \o <<"h", "i">> \o CRLF \o ChunkEndMark
\* one chunk of 5 bytes whose data is 0 CR LF CR LF, then the last chunk
ChunkedMark == <<"5">> \o CRLF \o ChunkEndMark \o CRLF \o ChunkEndMark
ChunkedBodies == {ChunkedHi, ChunkedMark}
Bodies == {<<>>, <<"h", "i">>} \cup ChunkedBodies
ClValues == {<<>>, <<"0">>, <<"2">>, <<"x">>}
Responses == [cl : ClValues, ka : BOOLEAN, te : BOOLEAN, body : Bodies]

Wire(r) ==
    <<StatusLine>>
        \o (IF r.cl # <<>> THEN CRLF \o <<ContentLengthName>> \o r.cl ELSE <<>>)
        \o (IF r.ka THEN CRLF \o <<KeepAliveHeader>> ELSE <<>>)
        \o (IF r.te THEN CRLF \o <<ChunkedHeader>> ELSE <<>>)
        \o HeaderEndMark \o r.body

\* a body of exactly Content-Length bytes, or a chunked body that ends with
\* the last chunk
WellFramed(r) ==
    \/ ~r.te /\ r.cl # <<>> /\ StoUL(r.cl) = Len(r.body)
    \/ r.te /\ r.cl = <<>> /\ r.body \in ChunkedBodies

\* after the loop: if (!keepAliveServer) close(serverSocket);
\* else saveKeepAliveConnection(...): the socket goes into the pool
PoolsAfterLoop(l) == l.at = "done" /\ l.keepAliveServer

InitRelay ==
    /\ PoolInit /\ BuildIdle /\ tunnel = NoTunnel
    /\ response \in Responses
    /\ upEnd \in {"close", "idle"}
    /\ received = 0
    /\ reads = 0
    /\ loop = LoopStart
    /\ clientBytes = <<>>
    /\ clientFailed = FALSE

\* recv(serverSocket, buffer, BUFFER_SIZE - 1, 0) returns n > 0 bytes and the
\* loop body runs on them; sendOk: the send to the client, if one is made,
\* succeeds
RecvData(n, sendOk) ==
    /\ loop.at = "recv"
    /\ n \in 1..Smaller(BUFFER_SIZE - 1, Len(Wire(response)) - received)
    /\ LET buffer == SubSeq(Wire(response), received + 1, received + n)
           r == ProcessRead([loop EXCEPT !.bytesRead = n], buffer, sendOk)
       IN  /\ loop' = r.loop
           /\ clientBytes' = clientBytes \o r.sent
           /\ clientFailed' = r.failed
    /\ received' = received + n
    /\ reads' = reads + 1
    /\ UNCHANGED <<response, upEnd>>

\* recv returns 0: the origin has sent everything and closed
RecvEOF ==
    /\ loop.at = "recv"
    /\ received = Len(Wire(response))
    /\ upEnd = "close"
    /\ loop' = [loop EXCEPT !.bytesRead = 0, !.at = "done"]
    /\ UNCHANGED <<response, upEnd, received, reads, clientBytes, clientFailed>>

\* recv returns -1
RecvError ==
    /\ loop.at = "recv"
    /\ loop' = [loop EXCEPT !.bytesRead = -1, !.at = "done"]
    /\ UNCHANGED <<response, upEnd, received, reads, clientBytes, clientFailed>>

NextRelay ==
    \/ \E n \in 1..(BUFFER_SIZE - 1), sendOk \in BOOLEAN :
          RecvData(n, sendOk) /\ UNCHANGED <<poolVars, lastGet, buildVars, tunnel>>
    \/ RecvEOF /\ UNCHANGED <<poolVars, lastGet, buildVars, tunnel>>
    \/ RecvError /\ UNCHANGED <<poolVars, lastGet, buildVars, tunnel>>

SpecRelay == InitRelay /\ [][NextRelay]_vars

\* ------------------------------------------------ buildForwardRequest
\* Header names are sequences of characters, so that strcasecmp compares
\* them character by character.
UpperChars == <<"A", "B", "C", "D", "E", "F", "G", "H", "I", "J", "K", "L", "M",
               "N", "O", "P", "Q", "R", "S", "T", "U", "V", "W", "X", "Y", "Z">>
LowerChars == <<"a", "b", "c", "d", "e", "f", "g", "h", "i", "j", "k", "l", "m",
               "n", "o", "p", "q", "r", "s", "t", "u", "v", "w", "x", "y", "z">>
tolower(c) ==
    IF \E i \in 1..Len(UpperChars) : UpperChars[i] = c
    THEN LowerChars[CHOOSE i \in 1..Len(UpperChars) : UpperChars[i] = c]
    ELSE c

\* strcasecmp(a, b): 0 when a and b are equal up to the case of their letters
strcasecmp(a, b) ==
    IF /\ Len(a) = Len(b)
       /\ \A i \in 1..Len(a) : tolower(a[i]) = tolower(b[i])
    THEN 0 ELSE 1

\* the names buildForwardRequest compares with
NameConnection == <<"C", "o", "n", "n", "e", "c", "t", "i", "o", "n">>
NameKeepAlive == <<"K", "e", "e", "p", "-", "A", "l", "i", "v", "e">>
NameProxyConnection ==
    <<"P", "r", "o", "x", "y", "-", "C", "o", "n", "n", "e", "c", "t", "i", "o", "n">>
NameProxyAuthorization ==
    <<"P", "r", "o", "x", "y", "-", "A", "u", "t", "h", "o", "r", "i", "z", "a", "t",
      "i", "o", "n">>
NameTE == <<"T", "E">>
NameTrailer == <<"T", "r", "a", "i", "l", "e", "r">>
NameTransferEncoding ==
    <<"T", "r", "a", "n", "s", "f", "e", "r", "-", "E", "n", "c", "o", "d", "i", "n",
      "g">>
NameUpgrade == <<"U", "p", "g", "r", "a", "d", "e">>
HopByHop == <<NameConnection, NameKeepAlive, NameProxyConnection,
              NameProxyAuthorization, NameTE, NameTrailer, NameTransferEncoding,
              NameUpgrade>>

\* header names a client sends, in other spellings and with other names
SentConnectionLower == <<"c", "o", "n", "n", "e", "c", "t", "i", "o", "n">>
SentKeepAliveUpper == <<"K", "E", "E", "P", "-", "A", "L", "I", "V", "E">>
SentTe == <<"T", "e">>
SentTransferEncodingLower ==
    <<"t", "r", "a", "n", "s", "f", "e", "r", "-", "e", "n", "c", "o", "d", "i", "n",
      "g">>
SentHost == <<"H", "o", "s", "t">>
SentAccept == <<"A", "c", "c", "e", "p", "t">>
SentContentLength ==
    <<"C", "o", "n", "t", "e", "n", "t", "-", "L", "e", "n", "g", "t", "h">>
SentTrailers == <<"T", "r", "a", "i", "l", "e", "r", "s">>

\* req.headers is a map from name to value; the loop visits its entries in
\* the map's order, here the order of this sequence
HeaderOrder == <<SentAccept, NameConnection, SentContentLength, SentHost,
                 SentKeepAliveUpper, NameProxyAuthorization,
                 NameProxyConnection, SentTe, SentTrailers, NameUpgrade,
                 SentConnectionLower, SentTransferEncodingLower>>
HeaderNames == {HeaderOrder[i] : i \in 1..Len(HeaderOrder)}

\* the headers a client sends: the names in N, Connection (in either
\* spelling) with the value c1 or c2
HeadersOf(N, c1, c2) ==
    [n \in N |-> IF n = NameConnection THEN c1
                 ELSE IF n = SentConnectionLower THEN c2
                 ELSE IF n = SentContentLength THEN "4"
                 ELSE "v"]

ConnectionValues == {"close", "keep-alive"}

Requests ==
    [method : {"GET", "POST"},
     headers : {HeadersOf(N, c1, c2) :
                   N \in SUBSET HeaderNames, c1 \in ConnectionValues,
                   c2 \in ConnectionValues},
     body : {"", "data"}]

\* the lines written to the stream: a header line has a name and a value,
\* the request line and the empty line have no name
RequestLine(r) == [name |-> <<>>, value |-> r.method]
HeaderLine(n, v) == [name |-> n, value |-> v]
EmptyLine == [name |-> <<>>, value |-> ""]

\* a comparison that tells apart the case of the letters
SkippedExactCase(n) == \E i \in 1..Len(HopByHop) : n = HopByHop[i]

\* the test that makes the loop skip a header
Skipped(n) == \E i \in 1..Len(HopByHop) : strcasecmp(n, HopByHop[i]) = 0

RECURSIVE HeaderLines(_, _)
HeaderLines(headers, i) ==
    IF i > Len(HeaderOrder) THEN <<>>
    ELSE LET n == HeaderOrder[i] IN
         (IF n \in DOMAIN headers /\ ~Skipped(n)
          THEN <<HeaderLine(n, headers[n])>> ELSE <<>>)
             \o HeaderLines(headers, i + 1)

buildForwardRequest(r) ==
    <<RequestLine(r)>> \o HeaderLines(r.headers, 1)
        \o <<HeaderLine(NameConnection, "keep-alive")>> \o <<EmptyLine>>

InitBuild ==
    /\ PoolInit /\ RelayIdle /\ tunnel = NoTunnel
    /\ req \in Requests
    /\ requestToSend = <<>>

\* std::string requestToSend = buildForwardRequest(req);
Build ==
    /\ requestToSend = <<>>
    /\ requestToSend' = buildForwardRequest(req)
    /\ UNCHANGED <<poolVars, lastGet, relayVars, req, tunnel>>

NextBuild == Build

SpecBuild == InitBuild /\ [][NextBuild]_vars

\* ------------------------------------------------ the CONNECT tunnel
\* One CONNECT handler after "200 Connection Established": the tunnel loop
\* between clientSocket and serverSocket.  Each peer sends the bytes of its
\* stream, one after the other; a byte is the pair of its sender and index.
Sides == {"client", "server"}
Other(sd) == IF sd = "client" THEN "server" ELSE "client"
Stream(sd) == [i \in 1..MaxMsg |-> <<sd, i>>]

\* the fields of tunnel:
\*   at, from        where the loop is: "select", or "recv" / "send" / "wait"
\*                   in the branch that reads from the side from; "closed"
\*   readFds         the sides select reported readable
\*   buffer          the bytes the last recv returned (bytesRead = its length)
\*   totalBytesSent  as in the write loop
\*   arrived         per side: how many bytes of its stream have arrived
\*   peer            per side: "open", "eof" (it closed) or "reset"
\*   read            per side: the bytes the handler has read from it
\*   written         per side: the bytes the handler has written to it
\*   writable        per side: its send buffer has room
\*   why             why the loop ended
\*   activity        what the last select on readFds returned (0 before it)
TunnelStart ==
    [at |-> "select", from |-> "client", readFds |-> {}, buffer |-> <<>>,
     activity |-> 0,
     totalBytesSent |-> 0,
     arrived |-> [sd \in Sides |-> 0],
     peer |-> [sd \in Sides |-> "open"],
     read |-> [sd \in Sides |-> <<>>],
     written |-> [sd \in Sides |-> <<>>],
     writable |-> [sd \in Sides |-> TRUE],
     why |-> ""]

\* what recv can return from a side: what has arrived and was not read
Unread(t, sd) == SubSeq(Stream(sd), Len(t.read[sd]) + 1, t.arrived[sd])

\* select reports a socket readable when data waits or the peer is gone
Readable(t, sd) == Unread(t, sd) # <<>> \/ t.peer[sd] # "open"

\* tunnelActive = false; break;  and after the loop close(serverSocket)
Break(t, why) == [t EXCEPT !.at = "closed", !.why = why]

\* after the branch of the client comes the branch of the server, if select
\* reported it readable; after that the loop starts over
NextBranch(t) ==
    IF t.from = "client" /\ "server" \in t.readFds
    THEN [t EXCEPT !.at = "recv", !.from = "server"]
    ELSE [t EXCEPT !.at = "select"]

\* send(dst, buffer + totalBytesSent, bytesRead - totalBytesSent, 0) that
\* returns bytesSent: the bytes it has written
SendSlice(buffer, totalBytesSent, bytesSent) ==
    SubSeq(buffer, totalBytesSent + 1, totalBytesSent + bytesSent)

\* select(maxFd, &readFds, NULL, NULL, &timeout) returns > 0
TunnelSelect ==
    /\ tunnel.at = "select"
    /\ LET ready == {sd \in Sides : Readable(tunnel, sd)} IN
          /\ ready # {}
          /\ tunnel' = [tunnel EXCEPT !.readFds = ready, !.at = "recv",
                           !.activity = Cardinality(ready),
                           !.from = IF "client" \in ready THEN "client" ELSE "server"]

\* select returns < 0 with an errno other than EINTR: break
TunnelSelectError ==
    /\ tunnel.at = "select"
    /\ tunnel' = Break([tunnel EXCEPT !.activity = -1], "select")

\* select returns < 0 with errno EINTR, a signal having been handled in the
\* thread: continue
TunnelSelectInterrupted ==
    /\ tunnel.at = "select"
    /\ tunnel' = [tunnel EXCEPT !.activity = -1, !.readFds = {}]

\* select returns 0, no socket having become readable within 30 s: continue
TunnelSelectIdle ==
    /\ tunnel.at = "select"
    /\ \A sd \in Sides : ~Readable(tunnel, sd)
    /\ tunnel' = [tunnel EXCEPT !.activity = 0, !.readFds = {}]

\* recv(src, buffer, BUFFER_SIZE, 0) in the branch of the side tunnel.from
TunnelRecv ==
    /\ tunnel.at = "recv"
    /\ LET src == tunnel.from
           waiting == Unread(tunnel, src)
           bytes == SubSeq(waiting, 1, Smaller(BUFFER_SIZE, Len(waiting)))
       IN  IF waiting # <<>>
           THEN tunnel' = [tunnel EXCEPT !.buffer = bytes,
                              !.read[src] = @ \o bytes,
                              !.totalBytesSent = 0, !.at = "send"]
           ELSE IF tunnel.peer[src] = "open"
           THEN tunnel' = [tunnel EXCEPT !.at = "select"]
           ELSE tunnel' = Break(tunnel, tunnel.peer[src])

\* send returns bytesSent > 0, possibly less than what was left; full: the
\* send buffer of the socket has no room after it
TunnelSend(bytesSent, full) ==
    /\ tunnel.at = "send"
    /\ LET dst == Other(tunnel.from)
           total == tunnel.totalBytesSent + bytesSent
           t == [tunnel EXCEPT
                    !.written[dst] = @ \o SendSlice(tunnel.buffer,
                                                    tunnel.totalBytesSent, bytesSent),
                    !.totalBytesSent = total,
                    !.writable[dst] = ~full]
       IN  /\ tunnel.peer[dst] # "reset"
           /\ tunnel.writable[dst]
           /\ bytesSent \in 1..(Len(tunnel.buffer) - tunnel.totalBytesSent)
           /\ tunnel' = IF total < Len(tunnel.buffer) THEN t ELSE NextBranch(t)

\* send returns -1 with EAGAIN / EWOULDBLOCK: wait for writability
TunnelSendWouldBlock ==
    /\ tunnel.at = "send"
    /\ tunnel.peer[Other(tunnel.from)] # "reset"
    /\ ~tunnel.writable[Other(tunnel.from)]
    /\ tunnel' = [tunnel EXCEPT !.at = "wait"]

\* send returns -1 with another errno: the peer is gone; break
TunnelSendError ==
    /\ tunnel.at = "send"
    /\ tunnel.peer[Other(tunnel.from)] = "reset"
    /\ tunnel' = Break(tunnel, "reset")

\* select(dst + 1, NULL, &writeFds, NULL, 5 s) returns > 0: continue
TunnelWaitWritable ==
    /\ tunnel.at = "wait"
    /\ tunnel.writable[Other(tunnel.from)]
    /\ tunnel' = [tunnel EXCEPT !.at = "send"]

\* that select returns 0 after 5 s: break
TunnelWaitTimeout ==
    /\ tunnel.at = "wait"
    /\ ~tunnel.writable[Other(tunnel.from)]
    /\ tunnel' = Break(tunnel, "timeout")

\* that select returns < 0 with errno EINTR, a signal having been handled in
\* the thread; the test is  <= 0  whatever errno is: break
TunnelWaitInterrupted ==
    /\ tunnel.at = "wait"
    /\ tunnel' = Break(tunnel, "interrupted")

\* the peers: the next byte of a stream arrives
TunnelPeerSends(sd) ==
    /\ tunnel.at \notin {"none", "closed"}
    /\ tunnel.peer[sd] = "open"
    /\ tunnel.arrived[sd] < MaxMsg
    /\ tunnel' = [tunnel EXCEPT !.arrived[sd] = @ + 1]

\* a peer closes its connection
TunnelPeerCloses(sd) ==
    /\ tunnel.at \notin {"none", "closed"}
    /\ tunnel.peer[sd] = "open"
    /\ tunnel' = [tunnel EXCEPT !.peer[sd] = "eof"]

\* a peer resets its connection
TunnelPeerResets(sd) ==
    /\ tunnel.at \notin {"none", "closed"}
    /\ tunnel.peer[sd] \in {"open", "eof"}
    /\ tunnel' = [tunnel EXCEPT !.peer[sd] = "reset"]

\* a peer reads what was written to it: its socket is writable again
TunnelPeerDrains(sd) ==
    /\ tunnel.at \notin {"none", "closed"}
    /\ tunnel.peer[sd] # "reset"
    /\ ~tunnel.writable[sd]
    /\ tunnel' = [tunnel EXCEPT !.writable[sd] = TRUE]

KeepTunnel == UNCHANGED <<poolVars, lastGet, relayVars, buildVars>>

InitTunnel ==
    /\ PoolInit /\ RelayIdle /\ BuildIdle
    /\ tunnel = TunnelStart

\* the steps the handler's thread takes by itself; a select that a signal
\* interrupts is a step of NextTunnel only: it happens as often as signals
\* arrive
TunnelStep ==
    \/ TunnelSelect /\ KeepTunnel
    \/ TunnelSelectError /\ KeepTunnel
    \/ TunnelSelectIdle /\ KeepTunnel
    \/ TunnelRecv /\ KeepTunnel
    \/ \E n \in 1..MaxMsg, full \in BOOLEAN : TunnelSend(n, full) /\ KeepTunnel
    \/ TunnelSendWouldBlock /\ KeepTunnel
    \/ TunnelSendError /\ KeepTunnel
    \/ TunnelWaitWritable /\ KeepTunnel
    \/ TunnelWaitTimeout /\ KeepTunnel

NextTunnel ==
    \/ TunnelSelect /\ KeepTunnel
    \/ TunnelSelectError /\ KeepTunnel
    \/ TunnelSelectIdle /\ KeepTunnel
    \/ TunnelRecv /\ KeepTunnel
    \/ \E n \in 1..MaxMsg, full \in BOOLEAN : TunnelSend(n, full) /\ KeepTunnel
    \/ TunnelSendWouldBlock /\ KeepTunnel
    \/ TunnelSendError /\ KeepTunnel
    \/ TunnelWaitWritable /\ KeepTunnel
    \/ TunnelWaitTimeout /\ KeepTunnel
    \/ TunnelSelectInterrupted /\ KeepTunnel
    \/ TunnelWaitInterrupted /\ KeepTunnel
    \/ \E sd \in Sides : TunnelPeerSends(sd) /\ KeepTunnel
    \/ \E sd \in Sides : TunnelPeerCloses(sd) /\ KeepTunnel
    \/ \E sd \in Sides : TunnelPeerResets(sd) /\ KeepTunnel
    \/ \E sd \in Sides : TunnelPeerDrains(sd) /\ KeepTunnel

\* the handler's thread keeps running; the peers act as they like
SpecTunnel == InitTunnel /\ [][NextTunnel]_vars /\ WF_vars(TunnelStep)

\* ------------------------------------------------------------ properties
\* a handler that holds an upstream socket from its dial
InUse(w) == pc[w] \in {"dialed", "chunks", "relay", "tunnel"}

\* C1: no upstream socket is in use by two handlers at the same time.
C1_NoSharedSocket ==
    \A w1, w2 \in Workers :
        (w1 # w2 /\ InUse(w1) /\ InUse(w2)) => serverSocket[w1] # serverSocket[w2]

\* C2: get(h,p) removes the entry it returns: right after the dialer's get
\* has returned a socket, the pool holds no entry for the key.
C2_GetRemoves ==
    [][\A w \in Workers :
          (pc[w] = "get" /\ pc'[w] = "peek")
              => KeyOf(w) \notin DOMAIN keepAliveConnections']_vars

\* C3: every socket stored in the pool is open (an entry that a dialer has
\* closed and is about to remove apart).
C3_PooledAreOpen ==
    \A k \in DOMAIN keepAliveConnections :
        fdState[keepAliveConnections[k]] = "free"
            => \E w \in Workers : pc[w] = "remove" /\ KeyOf(w) = k

\* C4: a put that finds a different socket under its key has closed that
\* socket when it returns, and the key maps to the socket that was put.
C4_PutClosesDisplaced ==
    (lastPut.old # 0 /\ lastPut.old # lastPut.sock)
        => /\ fdState[lastPut.old] = "free"
           /\ lastPut.key \in DOMAIN keepAliveConnections
           /\ keepAliveConnections[lastPut.key] = lastPut.sock

\* C4 witness: a put has just displaced a different socket
C4_Witness ==
    /\ lastPut.old # 0 /\ lastPut.old # lastPut.sock
    /\ keepAliveConnections[lastPut.key] = lastPut.sock
    /\ fdState[lastPut.sock] # "free"

\* every open upstream socket is held by a running handler or by the pool
NoLeak ==
    \A f \in Fds :
        fdState[f] # "free"
            => (f \in Pooled \/ \E w \in Workers : InUse(w) /\ serverSocket[w] = f)

\* C5: no step of a handler, on any exit path that returns (the exit by an
\* exception apart), leaves an upstream socket open that neither a running
\* handler nor the pool holds.
C5_NoLeak ==
    [][(NoLeak /\ ~(\E w \in Workers : RelayThrows(w))) => NoLeak']_vars

\* C6: when a GET/POST handler completes, its upstream socket is in the pool
\* under the request's key if the response said keep-alive, and is closed and
\* not in the pool if it did not.
C6_PooledIffKeepAlive ==
    [][\A w \in Workers, e \in LoopEndsAll :
          RelayWith(w, e)
              => IF e.ka
                 THEN /\ KeyOf(w) \in DOMAIN keepAliveConnections'
                      /\ keepAliveConnections'[KeyOf(w)] = serverSocket[w]
                 ELSE /\ fdState'[serverSocket[w]] = "free"
                      /\ \A k \in DOMAIN keepAliveConnections' :
                            keepAliveConnections'[k] # serverSocket[w]]_vars

\* C7: when the read from upstream or the write to the client failed during
\* the relay, the upstream socket is closed and not pooled, keep-alive or not.
C7_FailedExchangeNotPooled ==
    [][\A w \in Workers, e \in LoopEndsAll :
          (RelayWith(w, e) /\ e.end \in {"readerr", "sendfail"})
              => /\ fdState'[serverSocket[w]] = "free"
                 /\ \A k \in DOMAIN keepAliveConnections' :
                       keepAliveConnections'[k] # serverSocket[w]]_vars

\* C8: of two consecutive GETs to the same host:port, the later one's dial
\* returns the earlier one's upstream socket, without a connect, iff the
\* earlier response said keep-alive and the peek does not report a close;
\* and the socket so returned is open.
C8_ReuseIffKeepAlive ==
    [][(/\ pc[SeqWorker] \in {"get", "peek"}
        /\ pc'[SeqWorker] \in {"connect", "remove", "dialed"}
        /\ lastGet.sock # 0
        /\ lastGet.key = KeyOf(SeqWorker))
          => LET reuse == /\ pc'[SeqWorker] = "dialed"
                          /\ serverSocket'[SeqWorker] = lastGet.sock
             IN  /\ reuse <=> (lastGet.ka /\ Peek(fdState, lastGet.sock) # 0)
                 /\ reuse => fdState'[lastGet.sock] # "free"]_vars

\* C9: when the handler returns after relaying a well-framed response, with
\* no read error and no failed send, the client has received exactly the
\* bytes the origin sent, however the response was split across the reads.
C9_ByteIdentical ==
    (/\ loop.at = "done"
     /\ WellFramed(response)
     /\ ~clientFailed
     /\ loop.bytesRead >= 0)
        => clientBytes = Wire(response)

\* C10: when the first read has delivered the header block and the whole
\* body of a well-framed response, the loop has ended: it does not call recv
\* again.
C10_OneReadTerminates ==
    (/\ reads = 1
     /\ received = Len(Wire(response))
     /\ WellFramed(response))
        => loop.at = "done"

\* C12: a POST with malformed request framing is answered with 400 Bad
\* Request and nothing else, and its handler returns without having dialed:
\* it never held an upstream socket and wrote nothing upstream.
C12_BadPostNoDial ==
    (lastExit.worker # 0 /\ lastExit.framing = "bad")
        => /\ lastExit.toClient = <<sendErrorResponse(400, "Bad Request")>>
           /\ lastExit.sock = 0
           /\ lastExit.toServer = <<>>

\* C13: no exception leaves the response loop of a handler, whatever the
\* origin server sends.
C13_NoExceptionEscapes == loop.at # "throw"

\* C14: a handler whose dial failed has sent the client the 502 Bad Gateway
\* response and nothing else, and has written nothing upstream.
C14_DialFailSends502 ==
    lastExit.path = "dialfail"
        => /\ lastExit.toClient = <<sendErrorResponse(502, "Bad Gateway")>>
           /\ lastExit.toServer = <<>>

C14_Witness ==
    /\ lastExit.path = "dialfail"
    /\ lastExit.method = "CONNECT"
    /\ lastExit.toClient = <<sendErrorResponse(502, "Bad Gateway")>>

C17_NeverReturnsDeadSocket ==
    [][\A w \in Workers :
          (pc[w] = "peek" /\ pc'[w] = "dialed")
              => fdState[existingSocket[w]] \notin {"eof", "free"}]_vars

\* C18: when the peek on the pooled socket fails with an error other than
\* would-block, the dialer closes the socket and goes on to remove its entry
\* and dial afresh.
C18_PeekErrorRedials ==
    [][\A w \in Workers :
          (/\ pc[w] = "peek" /\ pc'[w] # "peek"
           /\ fdState[existingSocket[w]] = "reset")
              => /\ pc'[w] = "remove"
                 /\ fdState'[existingSocket[w]] = "free"]_vars

\* C19: for a response with neither Content-Length nor Transfer-Encoding:
\* chunked the loop ends only on EOF or on a read error.
C19_UnframedReadsToEOF ==
    (/\ loop.at = "done"
     /\ response.cl = <<>> /\ ~response.te
     /\ response.body # <<>>
     /\ ~clientFailed)
        => loop.bytesRead <= 0

\* C20: for a response with both Content-Length: N and Transfer-Encoding:
\* chunked, a loop that ended on the framing has forwarded the chunked
\* terminator.
C20_ChunkedWinsFraming ==
    (/\ loop.at = "done"
     /\ response.te /\ response.cl # <<>> /\ StoUL(response.cl) >= 0
     /\ response.body \in ChunkedBodies
     /\ ~clientFailed
     /\ loop.bytesRead > 0)
        => Find(clientBytes, ChunkEndMark, 1) # 0

\* C11: the request that buildForwardRequest builds has no header of the
\* client's whose name is, in any case of its letters, Connection,
\* Keep-Alive, Proxy-Connection, Proxy-Authorization, TE, Trailer,
\* Transfer-Encoding or Upgrade; it has exactly one Connection header, with
\* the value keep-alive; it has every other header of the client; and it
\* ends with the empty line, without the body.
C11_ForwardedHeaders ==
    requestToSend # <<>> =>
        LET lines == 1..Len(requestToSend)
            IsNamed(i, n) == strcasecmp(requestToSend[i].name, n) = 0
            connection == {i \in lines : IsNamed(i, NameConnection)}
        IN  /\ \A i \in lines, k \in 2..Len(HopByHop) : ~IsNamed(i, HopByHop[k])
            /\ Cardinality(connection) = 1
            /\ \A i \in connection :
                  requestToSend[i] = HeaderLine(NameConnection, "keep-alive")
            /\ \A n \in DOMAIN req.headers :
                  (\A k \in 1..Len(HopByHop) : strcasecmp(n, HopByHop[k]) # 0)
                      => \E i \in lines :
                            requestToSend[i] = HeaderLine(n, req.headers[n])
            /\ requestToSend[Len(requestToSend)] = EmptyLine
            /\ \A i \in lines : requestToSend[i].value # "data"

C11_Witness ==
    /\ requestToSend # <<>>
    /\ SentConnectionLower \in DOMAIN req.headers
    /\ req.headers[SentConnectionLower] = "close"
    /\ SentTransferEncodingLower \in DOMAIN req.headers
    /\ SentHost \in DOMAIN req.headers
    /\ SentTrailers \in DOMAIN req.headers
    /\ req.body = "data"

IsPrefix(a, b) == Len(a) <= Len(b) /\ a = SubSeq(b, 1, Len(a))

\* C16: in a tunnel, what the handler has written to a side is a prefix of
\* what it has read from the other side, which is a prefix of what that
\* side sent; and while neither side has closed its connection and no write
\* times out, each byte read is eventually written to the other side: the
\* loop does not end with a byte read and not written.
C16_TunnelRelays ==
    /\ [](\A sd \in Sides :
             /\ IsPrefix(tunnel.written[Other(sd)], tunnel.read[sd])
             /\ IsPrefix(tunnel.read[sd], Stream(sd)))
    /\ []((/\ tunnel.at = "closed"
           /\ \A side \in Sides : tunnel.peer[side] = "open"
           /\ tunnel.why # "timeout")
              => \A sd \in Sides : tunnel.written[Other(sd)] = tunnel.read[sd])
    /\ \A sd \in Sides, n \in 1..MaxMsg :
          (Len(tunnel.read[sd]) >= n)
              ~> (\/ Len(tunnel.written[Other(sd)]) >= n
                  \/ \E side \in Sides : tunnel.peer[side] # "open"
                  \/ tunnel.why = "timeout")

\* C21: when the handler returns and no send to the client has failed, the
\* client has been sent every byte that was read from upstream, once and in
\* order, also when upstream failed before the header block was complete.
C21_EveryByteForwarded ==
    (loop.at = "done" /\ ~clientFailed)
        => clientBytes = SubSeq(Wire(response), 1, received)

\* C22: when the handler puts the upstream socket into the pool, the whole
\* response has been read from it.
C22_PooledSocketIsDrained ==
    PoolsAfterLoop(loop) => received = Len(Wire(response))

\* C23: requests come with port "80" or with none, and every entry of the
\* pool is under the port "80".
C23_DefaultPortKey ==
    \A k \in DOMAIN keepAliveConnections : k = Key(Host, "80")

\* C25: the dialer's remove drops no open socket from the pool: the entry
\* it erases holds a closed socket (the one the dialer rejected and closed)
\* or one that a handler holds, not an idle open socket that another worker
\* has put under the key in the meantime.
C25_RemoveErasesOnlyRejected ==
    [][\A w \in Workers :
          (/\ pc[w] = "remove" /\ pc'[w] = "connect"
           /\ KeyOf(w) \in DOMAIN keepAliveConnections)
              => LET erased == keepAliveConnections[KeyOf(w)] IN
                 \/ fdState[erased] = "free"
                 \/ \E v \in Workers : InUse(v) /\ serverSocket[v] = erased]_vars

\* C24: the tunnel loop of CONNECT is never ended by the idle timeout of the
\* readiness wait nor by EINTR on it (the loop continues); it ends only after
\* a read EOF on one of the sockets, a write timeout, or an unrecoverable
\* read, write or select error; and once a side has closed its connection
\* the handler eventually returns.
C24_WaitContinues ==
    [][(tunnel.at = "select" /\ tunnel'.activity <= 0
            /\ ~(tunnel'.at = "closed" /\ tunnel'.why = "select"))
          => tunnel'.at = "select"]_vars
C24_ExitCauses ==
    tunnel.at = "closed" => tunnel.why \in {"eof", "reset", "timeout", "select"}
C24_ReturnsAfterClose ==
    \A sd \in Sides : (tunnel.peer[sd] # "open") ~> (tunnel.at = "closed")
C24_TunnelEnds ==
    C24_WaitContinues /\ []C24_ExitCauses /\ C24_ReturnsAfterClose
====
